---- MODULE Spec2Model ----
(***************************************************************************)
(* Model of src/decompile_anims.py: the Range Analyzer                     *)
(* (is_continuous_and_non_overlapping), the Combination Selector           *)
(* (find_best_anis_combo), the Sample Decoder (parse_man) and the Track    *)
(* Merger (convert_anis) driven by the per-track loop of convert().        *)
(*                                                                         *)
(* Three specifications share the module:                                  *)
(*   SpecRange   - the Range Analyzer applied to bounded clip sequences    *)
(*   SpecSelect  - find_best_anis_combo, phase by phase                    *)
(*   SpecConvert - the convert() loop over source tracks                   *)
(* Python indices are 0-based; sequences here are 1-based, so the element  *)
(* at Python index i is s[i + 1].  Dictionary keys (sample indices) keep   *)
(* their Python values.                                                    *)
(***************************************************************************)
EXTENDS Integers, Sequences, FiniteSets, TLC

VARIABLES
    \* SpecRange
    ranges,        \* argument of is_continuous_and_non_overlapping
    verdict,       \* its return value
    ra_pc,
    \* SpecSelect
    anis,          \* argument of find_best_anis_combo
    best_combo,    \* local best_combo, the value returned at the end
    reason,        \* local reason
    full_start,    \* local full_start
    full_end,      \* local full_end
    sel_pc,
    \* SpecConvert
    tracks,            \* per source track, the ModelAnimations loaded for it
    track_idx,         \* position of the loop over source tracks
    stream_idx,        \* position of the decode loop of convert_anis
    man_data_merged,   \* local man_data_merged of convert_anis
    man_data,          \* animation_data of parse_man, then man_data of convert_anis
    bone_offset,       \* local bone_offset of parse_man
    sample_index,      \* local sample_index of parse_man
    saved,             \* the documents written for the bake, in order
    cv_pc

range_vars == <<ranges, verdict, ra_pc>>
select_vars == <<anis, best_combo, reason, full_start, full_end, sel_pc>>
convert_vars == <<tracks, track_idx, stream_idx, man_data_merged, man_data,
                  bone_offset, sample_index, saved, cv_pc>>
vars == <<range_vars, select_vars, convert_vars>>

----------------------------------------------------------------------------
(* Bounds of the model. *)

MaxClips == 3      \* clips of one source track
MaxFrame == 2      \* frame numbers are 0..MaxFrame
MaxStreams == 2    \* ModelAnimations loaded for one source track
MaxFrameCount == 2 \* frame_count of a ModelAnimation
MaxTracks == 3     \* source tracks of one run

(* Inputs. *)

Frames == 0..MaxFrame
\* An animation declared by the model script: frame range and playback.
\* (name and model only feed the grouping and the diagnostics.)
Playbacks == {<<25, 0>>, <<25, 1>>, <<30, 0>>}
Clips == {[first_frame |-> f, last_frame |-> l, fps |-> p[1], speed |-> p[2]] :
            f \in Frames, l \in Frames, p \in Playbacks}
ValidClips == {c \in Clips : c.first_frame <= c.last_frame}

SeqsUpTo(S, n) == UNION {[1..k -> S] : k \in 1..n}

----------------------------------------------------------------------------
(* Python built-ins used by the code. *)

Min(S) == CHOOSE x \in S : \A y \in S : x <= y
Max(S) == CHOOSE x \in S : \A y \in S : x >= y

\* sorted(ranges, key=lambda x: x.first_frame): a stable sort.
RECURSIVE InsertByFirstFrame(_, _)
InsertByFirstFrame(s, x) ==
    IF s = <<>> THEN <<x>>
    ELSE IF Head(s).first_frame <= x.first_frame
         THEN <<Head(s)>> \o InsertByFirstFrame(Tail(s), x)
         ELSE <<x>> \o s

RECURSIVE SortedByFirstFrame(_)
SortedByFirstFrame(s) ==
    IF s = <<>> THEN <<>>
    ELSE InsertByFirstFrame(SortedByFirstFrame(SubSeq(s, 1, Len(s) - 1)), s[Len(s)])

\* itertools.combinations(range(lo, n + 1), r): the index tuples, in
\* lexicographic order.
RECURSIVE PrefixAll(_, _)
PrefixAll(x, ss) ==
    IF ss = <<>> THEN <<>> ELSE <<(<<x>> \o Head(ss))>> \o PrefixAll(x, Tail(ss))

RECURSIVE CombinationsFrom(_, _, _)
CombinationsFrom(lo, n, r) ==
    IF r = 0 THEN << <<>> >>
    ELSE IF lo > n THEN <<>>
    ELSE PrefixAll(lo, CombinationsFrom(lo + 1, n, r - 1)) \o CombinationsFrom(lo + 1, n, r)

\* combinations(anis, r) yields the elements at those positions.
Pick(s, idx) == [k \in 1..Len(idx) |-> s[idx[k]]]

----------------------------------------------------------------------------
(* Range Analyzer: is_continuous_and_non_overlapping. *)

\* The loop `for i in range(1, len(ranges))` from pair (i, i + 1) on.
RECURSIVE CheckPairsFrom(_, _)
CheckPairsFrom(s, i) ==
    IF i >= Len(s) THEN TRUE
    ELSE LET prev == s[i]
             curr == s[i + 1]
         IN IF curr.first_frame <= prev.last_frame THEN FALSE            \* Overlap
            ELSE IF curr.first_frame # prev.last_frame + 1 THEN FALSE    \* Gap
            ELSE CheckPairsFrom(s, i + 1)

\* Mutant: the adjacent pairs are checked without sorting first.
IsContinuousUnsorted(rs) == CheckPairsFrom(rs, 1)

is_continuous_and_non_overlapping(rs) == CheckPairsFrom(SortedByFirstFrame(rs), 1)

----------------------------------------------------------------------------
(* Combination Selector: find_best_anis_combo. *)

\* The inner loop `for combo in combinations(anis, r)`.
\* Mutant: `>=` in place of `>`, which keeps the last subset of a size.
RECURSIVE ScanCombosKeepLast(_, _, _)
ScanCombosKeepLast(as, combos, best) ==
    IF combos = <<>> THEN best
    ELSE LET combo == Pick(as, Head(combos))
         IN ScanCombosKeepLast(as, Tail(combos),
                IF is_continuous_and_non_overlapping(combo) /\ Len(combo) >= Len(best)
                THEN combo ELSE best)

RECURSIVE ScanCombos(_, _, _)
ScanCombos(as, combos, best) ==
    IF combos = <<>> THEN best
    ELSE LET combo == Pick(as, Head(combos))
         IN ScanCombos(as, Tail(combos),
                IF is_continuous_and_non_overlapping(combo) /\ Len(combo) > Len(best)
                THEN combo ELSE best)

\* The outer loop `for r in range(2, len(anis) + 1)`.
RECURSIVE ScanSizes(_, _, _)
ScanSizes(as, r, best) ==
    IF r > Len(as) THEN best
    ELSE ScanSizes(as, r + 1, ScanCombos(as, CombinationsFrom(1, Len(as), r), best))

FirstFrames(s) == {s[k].first_frame : k \in 1..Len(s)}
LastFrames(s) == {s[k].last_frame : k \in 1..Len(s)}

\* The largest-span fallback, lines 71-80.
\* Mutant: the first tied clip is kept, whatever its playback.
LargestSpanPickFirstTied(as) ==
    LET max_span == Max({as[k].last_frame - as[k].first_frame : k \in 1..Len(as)})
        tied == SelectSeq(as, LAMBDA a : a.last_frame - a.first_frame = max_span)
    IN IF Len(tied) > 1 THEN <<tied[1]>> ELSE tied

LargestSpanPick(as) ==
    LET max_span == Max({as[k].last_frame - as[k].first_frame : k \in 1..Len(as)})
        tied == SelectSeq(as, LAMBDA a : a.last_frame - a.first_frame = max_span)
        notSpedUp == SelectSeq(tied, LAMBDA a : a.fps = 25 /\ a.speed = 0)
    IN IF Len(tied) > 1
       THEN IF notSpedUp = <<>> THEN <<tied[1]>> ELSE <<notSpedUp[1]>>
       ELSE tied

InitSelect ==
    /\ anis \in SeqsUpTo(ValidClips, MaxClips)
    /\ best_combo = <<>>
    /\ reason = ""
    /\ full_start = 0
    /\ full_end = 0
    /\ sel_pc = "start"

IdleSelect ==
    /\ anis = <<>>
    /\ best_combo = <<>>
    /\ reason = ""
    /\ full_start = 0
    /\ full_end = 0
    /\ sel_pc = "idle"

\* Lines 56-57: a single clip is returned as is.
ReturnSingle ==
    /\ sel_pc = "start"
    /\ Len(anis) = 1
    /\ best_combo' = anis
    /\ sel_pc' = "done"
    /\ UNCHANGED <<anis, reason, full_start, full_end>>
    /\ UNCHANGED <<range_vars, convert_vars>>

\* Lines 58-67: the full range and the exact-cover search.
SearchCombos ==
    /\ sel_pc = "start"
    /\ Len(anis) # 1
    /\ reason' = "best combination"
    /\ full_start' = Min(FirstFrames(anis))
    /\ full_end' = Max(LastFrames(anis))
    /\ best_combo' = ScanSizes(anis, 2, <<>>)
    /\ sel_pc' = "searched"
    /\ UNCHANGED anis
    /\ UNCHANGED <<range_vars, convert_vars>>

\* Lines 69-80: `if not best_combo`, the largest-span fallback.
LargestSpan ==
    /\ sel_pc = "searched"
    /\ IF best_combo = <<>>
       THEN /\ reason' = "largest frame span"
            /\ best_combo' = LargestSpanPick(anis)
       ELSE UNCHANGED <<reason, best_combo>>
    /\ sel_pc' = "picked"
    /\ UNCHANGED <<anis, full_start, full_end>>
    /\ UNCHANGED <<range_vars, convert_vars>>

\* Mutant: the selection is returned without the full-range check.
CheckFullRangeSkipped ==
    /\ sel_pc = "picked"
    /\ sel_pc' = "done"
    /\ UNCHANGED <<anis, best_combo, reason, full_start, full_end>>
    /\ UNCHANGED <<range_vars, convert_vars>>

\* Lines 82-102: the full-range check and the return.
CheckFullRange ==
    /\ sel_pc = "picked"
    /\ LET best_combo_start == Min(FirstFrames(best_combo))
           best_combo_end == Max(LastFrames(best_combo))
       IN IF best_combo_start # full_start \/ best_combo_end # full_end
          THEN /\ reason' = "could not find combination covering full range"
               /\ best_combo' = anis
          ELSE UNCHANGED <<reason, best_combo>>
    /\ sel_pc' = "done"
    /\ UNCHANGED <<anis, full_start, full_end>>
    /\ UNCHANGED <<range_vars, convert_vars>>

NextSelect == ReturnSingle \/ SearchCombos \/ LargestSpan \/ CheckFullRange

----------------------------------------------------------------------------
(* The Range Analyzer applied to an arbitrary clip sequence. *)

InitRange ==
    /\ ranges \in SeqsUpTo(ValidClips, MaxClips)
    /\ verdict = FALSE
    /\ ra_pc = "call"

IdleRange ==
    /\ ranges = <<>>
    /\ verdict = FALSE
    /\ ra_pc = "idle"

CallRangeAnalyzer ==
    /\ ra_pc = "call"
    /\ verdict' = is_continuous_and_non_overlapping(ranges)
    /\ ra_pc' = "returned"
    /\ UNCHANGED ranges
    /\ UNCHANGED <<select_vars, convert_vars>>

NextRange == CallRangeAnalyzer

----------------------------------------------------------------------------
(* Sample Decoder and Track Merger: parse_man, convert_anis, convert. *)

\* mdh_by_checksum, built by convert() at lines 258-264: every record is
\* stored under its own checksum.  One hierarchy is known; checksum 2 is
\* known to no hierarchy.
Mdh1 == [checksum |-> 1, nodes |-> <<[name |-> "BIP01"], [name |-> "BIP01 SPINE"]>>]
mdh_by_checksum == (Mdh1.checksum :> Mdh1)

\* node_indices: the animated nodes of the hierarchy, each at most once.
NodeIndices == {<<>>, <<0>>, <<1>>, <<0, 1>>, <<1, 0>>}

\* Sample components are floats, written here in units of 0.00001: the
\* number f stands for the double nearest to f / 100000.
\* The sample at flat index i of the stream with seed `seed`.  Its
\* components include values below and above a rounding tie, decimal ties
\* whose double lies beside the tie (b + 5, b + 15), a negative one, and
\* exact binary ties (odd multiples of 1/32).
RawSample(seed, i) ==
    LET b == 1000 * seed + 20 * i
    IN [position |-> [x |-> b + 1, y |-> b + 7, z |-> b + 5],
        rotation |-> [x |-> 3125 * (2 * (seed + i) + 1), y |-> 0 - (b + 5),
                      z |-> b + 4, w |-> b + 15]]

\* A loaded ModelAnimation.  The file holds frame_count * len(node_indices)
\* samples.  Variant v fixes the playback header and the sample values.
ModelAnimationOf(c, fc, ni, v) ==
    [checksum |-> c,
     frame_count |-> fc,
     fps |-> IF v = 1 THEN 25 ELSE 30,
     fps_source |-> IF v = 1 THEN 25 ELSE 10,
     layer |-> v,
     node_indices |-> ni,
     samples |-> [k \in 1..(fc * Len(ni)) |-> RawSample(v, k - 1)]]

\* The streams of a track whose merge is followed sample by sample.
MergeStreams ==
    {ModelAnimationOf(1, fc, ni, v) : fc \in 1..MaxFrameCount, ni \in NodeIndices, v \in {1, 2}}

\* The tracks of a run over several source tracks: two that convert, one
\* with two checksums, one with an unknown checksum, one with no MAN file.
RunTracks ==
    {<<ModelAnimationOf(1, 1, <<0>>, 1)>>,
     <<ModelAnimationOf(1, 1, <<1>>, 2), ModelAnimationOf(1, 1, <<0, 1>>, 1)>>,
     <<ModelAnimationOf(1, 1, <<0>>, 1), ModelAnimationOf(2, 1, <<0>>, 1)>>,
     <<ModelAnimationOf(2, 1, <<0>>, 2)>>,
     <<>>}

\* Python's None / an unbound local.
None == [none |-> TRUE]

\* The double nearest to a / 100000 (a > 0) is m * 2^(-k) with
\* 2^52 <= m < 2^53: k is MantissaShift(a), and the remainder of
\* a * 2^k modulo 100000 tells on which side of a / 100000 it lies.
\* The least j with a * 2^j >= 100000, for 0 < a < 100000.
ShiftsUp(a) ==
    LET c == (100000 + a - 1) \div a
    IN CHOOSE j \in 0..17 : 2^j >= c /\ (j = 0 \/ 2^(j - 1) < c)

\* The greatest e with 100000 * 2^e <= a, for 100000 <= a < 2^31.
ShiftsDown(a) ==
    LET c == a \div 100000
    IN CHOOSE e \in 0..14 : 2^e <= c /\ 2^(e + 1) > c

MantissaShift(a) == IF a < 100000 THEN 52 + ShiftsUp(a) ELSE 52 - ShiftsDown(a)

\* (x * 2^k) modulo 100000, fourteen doublings at a time to stay within
\* 32-bit integers.
RECURSIVE DoubledMod(_, _)
DoubledMod(x, k) ==
    IF k >= 14 THEN DoubledMod((x * 16384) % 100000, k - 14)
    ELSE (x * 2^k) % 100000

\* 0 when a / 100000 is a double, 1 when the nearest double is greater,
\* -1 when it is smaller.
DoubleError(a) ==
    LET r == DoubledMod(a % 100000, MantissaShift(a))
    IN IF r = 0 THEN 0 ELSE IF r > 50000 THEN 1 ELSE 0 - 1

\* round(x, 4) for x >= 0: the multiple of 0.0001 nearest to the double;
\* a double that is exactly half way goes to the even multiple.
RoundAbs(a) ==
    LET q == a \div 10
        d == a % 10
    IN IF d < 5 THEN 10 * q
       ELSE IF d > 5 THEN 10 * (q + 1)
       ELSE IF DoubleError(a) > 0 THEN 10 * (q + 1)
       ELSE IF DoubleError(a) < 0 THEN 10 * q
       ELSE IF q % 2 = 0 THEN 10 * q ELSE 10 * (q + 1)

\* rf(f): round(f, 4).
rf(f) == IF f < 0 THEN 0 - RoundAbs(0 - f) ELSE RoundAbs(f)

model_animations == tracks[track_idx]
model_animation == model_animations[stream_idx]
mdh == mdh_by_checksum[model_animations[1].checksum]

InitConvert ==
    /\ tracks \in {<<t>> : t \in SeqsUpTo(MergeStreams, MaxStreams)}
                  \cup SeqsUpTo(RunTracks, MaxTracks)
    /\ track_idx = 1
    /\ stream_idx = 0
    /\ man_data_merged = None
    /\ man_data = None
    /\ bone_offset = 0
    /\ sample_index = 0
    /\ saved = <<>>
    /\ cv_pc = "track"

IdleConvert ==
    /\ tracks = <<>>
    /\ track_idx = 1
    /\ stream_idx = 0
    /\ man_data_merged = None
    /\ man_data = None
    /\ bone_offset = 0
    /\ sample_index = 0
    /\ saved = <<>>
    /\ cv_pc = "idle"

\* convert_anis, line 166.
checksums == {model_animations[k].checksum : k \in 1..Len(model_animations)}

\* Mutant: the abort raises, which ends the run.
AbortChecksumsRaises ==
    /\ cv_pc = "track"
    /\ track_idx <= Len(tracks)
    /\ Cardinality(checksums) # 1
    /\ cv_pc' = "raised"
    /\ UNCHANGED <<tracks, track_idx, stream_idx, man_data_merged, man_data,
                   bone_offset, sample_index, saved>>
    /\ UNCHANGED <<range_vars, select_vars>>

\* Lines 161-169: the loaded streams do not share one checksum.
AbortChecksums ==
    /\ cv_pc = "track"
    /\ track_idx <= Len(tracks)
    /\ Cardinality(checksums) # 1
    /\ track_idx' = track_idx + 1
    /\ UNCHANGED <<tracks, stream_idx, man_data_merged, man_data,
                   bone_offset, sample_index, saved, cv_pc>>
    /\ UNCHANGED <<range_vars, select_vars>>

\* Lines 170-173: no hierarchy has the checksum.
AbortNoMdh ==
    /\ cv_pc = "track"
    /\ track_idx <= Len(tracks)
    /\ Cardinality(checksums) = 1
    /\ model_animations[1].checksum \notin DOMAIN mdh_by_checksum
    /\ track_idx' = track_idx + 1
    /\ UNCHANGED <<tracks, stream_idx, man_data_merged, man_data,
                   bone_offset, sample_index, saved, cv_pc>>
    /\ UNCHANGED <<range_vars, select_vars>>

\* Lines 175-186: the merged structure, its header fields read from
\* model_animation, which the load loop left at the last stream.
BuildMerged ==
    /\ cv_pc = "track"
    /\ track_idx <= Len(tracks)
    /\ Cardinality(checksums) = 1
    /\ model_animations[1].checksum \in DOMAIN mdh_by_checksum
    /\ LET last == model_animations[Len(model_animations)]
       IN man_data_merged' =
            [hierarchy |-> mdh,
             animation |-> [checksum |-> model_animations[1].checksum,
                            frame_count |-> last.frame_count,
                            fps |-> last.fps,
                            fps_source |-> last.fps_source,
                            layer |-> last.layer,
                            source_script |-> <<>>,
                            frames |-> <<>>]]
    /\ stream_idx' = 1
    /\ cv_pc' = "parse_man"
    /\ UNCHANGED <<tracks, track_idx, man_data, bone_offset, sample_index, saved>>
    /\ UNCHANGED <<range_vars, select_vars>>

\* parse_man, lines 123-133.  A None result makes line 190 raise.
ParseManBegin ==
    /\ cv_pc = "parse_man"
    /\ IF model_animation.checksum # mdh.checksum
       THEN /\ man_data' = None
            /\ cv_pc' = "raised"
            /\ UNCHANGED <<bone_offset, sample_index>>
       ELSE /\ man_data' = [checksum |-> model_animation.checksum,
                            frame_count |-> model_animation.frame_count,
                            fps |-> model_animation.fps,
                            fps_source |-> model_animation.fps_source,
                            layer |-> model_animation.layer,
                            source_script |-> <<>>,
                            frames |-> <<>>]
            /\ bone_offset' = 0
            /\ sample_index' = 0
            /\ cv_pc' = "samples"
    /\ UNCHANGED <<tracks, track_idx, stream_idx, man_data_merged, saved>>
    /\ UNCHANGED <<range_vars, select_vars>>

\* Python values stored at a sample key: a list of floats (lines 146-150)
\* or, after the fold of lines 197-198, a single float.
PyList(items) == [list |-> items]
PyFloat(v) == [float |-> v]

\* Lines 141-153: the sample filed under bone_name at key sample_index.
FileSample(frames, bone_name, idx, sample) ==
    LET old == IF bone_name \in DOMAIN frames THEN frames[bone_name]
               ELSE [translation |-> <<>>, rotation |-> <<>>]
        translation == PyList(<<rf(sample.position.x), rf(sample.position.y),
                                rf(sample.position.z)>>)
        rotation == PyList(<<rf(sample.rotation.x), rf(sample.rotation.y),
                             rf(sample.rotation.z), rf(sample.rotation.w)>>)
    IN (bone_name :> [translation |-> (idx :> translation) @@ old.translation,
                      rotation |-> (idx :> rotation) @@ old.rotation]) @@ frames

\* Lines 135-136: the wrap-around of bone_offset.
WrappedOffset(offset, node_indices) ==
    IF offset >= Len(node_indices) THEN 0 ELSE offset

\* Mutant: bone_offset is never advanced.
ParseSampleStuckOffset ==
    /\ cv_pc = "samples"
    /\ sample_index < Len(model_animation.samples)
    /\ LET offset == WrappedOffset(bone_offset, model_animation.node_indices)
           bone_index == model_animation.node_indices[offset + 1]
           bone_name == mdh.nodes[bone_index + 1].name
       IN /\ man_data' = [man_data EXCEPT !.frames =
                            FileSample(@, bone_name, sample_index,
                                       model_animation.samples[sample_index + 1])]
          /\ bone_offset' = offset
    /\ sample_index' = sample_index + 1
    /\ UNCHANGED <<tracks, track_idx, stream_idx, man_data_merged, saved, cv_pc>>
    /\ UNCHANGED <<range_vars, select_vars>>

\* Lines 134-155: one iteration of the loop over the samples.
ParseSample ==
    /\ cv_pc = "samples"
    /\ sample_index < Len(model_animation.samples)
    /\ LET offset == WrappedOffset(bone_offset, model_animation.node_indices)
           bone_index == model_animation.node_indices[offset + 1]
           bone_name == mdh.nodes[bone_index + 1].name
       IN /\ man_data' = [man_data EXCEPT !.frames =
                            FileSample(@, bone_name, sample_index,
                                       model_animation.samples[sample_index + 1])]
          /\ bone_offset' = offset + 1
    /\ sample_index' = sample_index + 1
    /\ UNCHANGED <<tracks, track_idx, stream_idx, man_data_merged, saved, cv_pc>>
    /\ UNCHANGED <<range_vars, select_vars>>

\* Lines 197-198: `for v in values: merged[...][frame] = v` leaves the
\* last component of the decoded vector at the key.
FoldedEntry(values) == PyFloat(values.list[Len(values.list)])

\* Lines 195-198 for one bone and one track.
\* Mutant: a key the merged track already holds is not written again.
FoldTrackKeepFirst(merged, trackFrames) ==
    [frame \in DOMAIN merged \cup DOMAIN trackFrames |->
        IF frame \in DOMAIN merged THEN merged[frame]
        ELSE FoldedEntry(trackFrames[frame])]

FoldTrack(merged, trackFrames) ==
    [frame \in DOMAIN merged \cup DOMAIN trackFrames |->
        IF frame \in DOMAIN trackFrames THEN FoldedEntry(trackFrames[frame])
        ELSE merged[frame]]

\* Lines 190-198: the decoded frames written into the merged frames.
FoldFrames(merged, frames) ==
    [bone \in DOMAIN merged \cup DOMAIN frames |->
        IF bone \in DOMAIN frames
        THEN LET old == IF bone \in DOMAIN merged THEN merged[bone]
                        ELSE [translation |-> <<>>, rotation |-> <<>>]
             IN [translation |-> FoldTrack(old.translation, frames[bone].translation),
                 rotation |-> FoldTrack(old.rotation, frames[bone].rotation)]
        ELSE merged[bone]]

\* Line 157 and lines 188-198: parse_man returns, its result is folded
\* into man_data_merged, and the loop moves to the next stream.
FoldStream ==
    /\ cv_pc = "samples"
    /\ sample_index = Len(model_animation.samples)
    /\ man_data_merged' = [man_data_merged EXCEPT !.animation.frames =
                              FoldFrames(@, man_data.frames)]
    /\ IF stream_idx < Len(model_animations)
       THEN /\ stream_idx' = stream_idx + 1
            /\ cv_pc' = "parse_man"
       ELSE /\ cv_pc' = "save"
            /\ UNCHANGED stream_idx
    /\ UNCHANGED <<tracks, track_idx, man_data, bone_offset, sample_index, saved>>
    /\ UNCHANGED <<range_vars, select_vars>>

\* Lines 200-207: json.dumps(man_data, ...) is written to save_path; then
\* line 207 reads blender_script_file_path, a name the module never binds,
\* and the NameError leaves convert_anis and the loop of convert().
SaveAndBake ==
    /\ cv_pc = "save"
    /\ saved' = Append(saved, [track |-> track_idx, json_data |-> man_data])
    /\ cv_pc' = "raised"
    /\ UNCHANGED <<tracks, track_idx, stream_idx, man_data_merged, man_data,
                   bone_offset, sample_index>>
    /\ UNCHANGED <<range_vars, select_vars>>

\* Line 280: the loop over the source tracks ends.
FinishConvert ==
    /\ cv_pc = "track"
    /\ track_idx > Len(tracks)
    /\ cv_pc' = "finished"
    /\ UNCHANGED <<tracks, track_idx, stream_idx, man_data_merged, man_data,
                   bone_offset, sample_index, saved>>
    /\ UNCHANGED <<range_vars, select_vars>>

NextConvert ==
    \/ AbortChecksums
    \/ AbortNoMdh
    \/ BuildMerged
    \/ ParseManBegin
    \/ ParseSample
    \/ FoldStream
    \/ SaveAndBake
    \/ FinishConvert

StartRange == InitRange /\ IdleSelect /\ IdleConvert
SpecRange == StartRange /\ [][NextRange]_vars
StartSelect == InitSelect /\ IdleRange /\ IdleConvert
SpecSelect == StartSelect /\ [][NextSelect]_vars
StartConvert == InitConvert /\ IdleRange /\ IdleSelect
SpecConvert == StartConvert /\ [][NextConvert]_vars

----------------------------------------------------------------------------
(* What the properties below speak of, stated without the code's own       *)
(* algorithms: frame sets, tilings, and the decode by i mod len.           *)

FrameSet(c) == c.first_frame..c.last_frame
SpanOf(s) == <<Min(FirstFrames(s)), Max(LastFrames(s))>>

\* The clips of `as` at the positions S are pairwise disjoint and their
\* union is the interval from their least first to their greatest last frame.
TilesExactly(as, S) ==
    /\ S # {}
    /\ \A i, j \in S : i # j => FrameSet(as[i]) \cap FrameSet(as[j]) = {}
    /\ UNION {FrameSet(as[i]) : i \in S} =
          Min({as[i].first_frame : i \in S})..Max({as[i].last_frame : i \in S})

TilesFullRange(as, S) ==
    /\ TilesExactly(as, S)
    /\ UNION {FrameSet(as[i]) : i \in S} = SpanOf(as)[1]..SpanOf(as)[2]

PassingSets(as) ==
    {S \in SUBSET (1..Len(as)) : Cardinality(S) >= 2 /\ TilesExactly(as, S)}

RECURSIVE Ascending(_)
Ascending(S) == IF S = {} THEN <<>> ELSE <<Min(S)>> \o Ascending(S \ {Min(S)})

\* S comes before T in the enumeration of combinations of one size.
Precedes(S, T) == Min((S \ T) \cup (T \ S)) \in S

FirstLargestPassing(as) ==
    CHOOSE S \in PassingSets(as) :
        \A T \in PassingSets(as) :
            /\ Cardinality(T) <= Cardinality(S)
            /\ (Cardinality(T) = Cardinality(S) /\ T # S) => Precedes(S, T)

SpanTied(as) ==
    LET span(k) == as[k].last_frame - as[k].first_frame
    IN {k \in 1..Len(as) : \A j \in 1..Len(as) : span(j) <= span(k)}

\* The clip the tie-break names: the first tied clip with unmodified
\* playback, or else the first tied clip.
TieWinner(as) ==
    LET plain == {k \in SpanTied(as) : as[k].fps = 25 /\ as[k].speed = 0}
    IN IF plain # {} THEN as[Min(plain)] ELSE as[Min(SpanTied(as))]

TiedFallbackCase ==
    /\ Len(anis) >= 2
    /\ PassingSets(anis) = {}
    /\ Cardinality(SpanTied(anis)) > 1

----------------------------------------------------------------------------
(* Range Analyzer. *)

\* C9: for every non-empty clip sequence, in any order, the Range Analyzer
\* returns true exactly when the frame ranges are pairwise disjoint and
\* their union is the interval [min firstFrame, max lastFrame]; a single
\* clip yields true.
C9_RangeAnalyzerIffTiling ==
    ra_pc = "returned" =>
        /\ verdict <=> TilesExactly(ranges, 1..Len(ranges))
        /\ Len(ranges) = 1 => verdict

\* A tiling of three clips given out of order has been accepted.
C9_Witness ==
    /\ ra_pc = "returned"
    /\ verdict
    /\ Len(ranges) = 3
    /\ ranges[1].first_frame > ranges[2].first_frame

----------------------------------------------------------------------------
(* Combination Selector. *)

\* C1: for N >= 2 clips, whenever some subset of the input tiles the full
\* observed range exactly, the returned selection is a subset of the input
\* that tiles the full range exactly, and the fallbacks are used only when
\* no subset of two or more clips tiles the full range.
C1_ReturnsExactTiling ==
    (sel_pc = "done" /\ Len(anis) >= 2) =>
        /\ (\E S \in SUBSET (1..Len(anis)) : TilesFullRange(anis, S)) =>
               \E S \in SUBSET (1..Len(anis)) :
                   /\ TilesFullRange(anis, S)
                   /\ best_combo = Pick(anis, Ascending(S))
        /\ reason # "best combination" =>
               ~ \E S \in PassingSets(anis) : TilesFullRange(anis, S)

\* C3 as claimed: in the tied fallback case the selector returns exactly
\* one clip, the one the tie-break names.
C3_ReturnsOneClip ==
    (sel_pc = "done" /\ TiedFallbackCase) => best_combo = <<TieWinner(anis)>>

\* C3 amended: in the tied fallback case the largest-span fallback selects
\* exactly one clip, the one the tie-break names, and the selector returns
\* that one clip when its range is the full observed range and all input
\* clips otherwise.
C3_FallbackPicksOneClip ==
    /\ (sel_pc = "picked" /\ TiedFallbackCase) =>
           /\ best_combo = <<TieWinner(anis)>>
           /\ reason = "largest frame span"
    /\ (sel_pc = "done" /\ TiedFallbackCase) =>
           best_combo = IF SpanOf(<<TieWinner(anis)>>) = SpanOf(anis)
                        THEN <<TieWinner(anis)>> ELSE anis

\* Two clips tie, the first is sped up, and the second one was returned.
C3_Witness ==
    /\ sel_pc = "done"
    /\ TiedFallbackCase
    /\ ~ (anis[1].fps = 25 /\ anis[1].speed = 0)
    /\ best_combo = <<anis[2]>>

\* C5: a selection of the search or of the fallback that does not span the
\* full observed range is replaced by all input clips in their order, and
\* every returned selection spans exactly the full observed range.
C5_FullRangeOrAllClips ==
    [][(sel_pc = "picked" /\ sel_pc' = "done") =>
          /\ best_combo' = IF SpanOf(best_combo) = SpanOf(anis) THEN best_combo ELSE anis
          /\ SpanOf(best_combo') = <<full_start, full_end>>
          /\ SpanOf(best_combo') = SpanOf(anis)]_vars

\* Two clips with a gap between them were both returned.
C5_Witness ==
    /\ sel_pc = "done"
    /\ Len(anis) = 2
    /\ anis[1].last_frame + 1 < anis[2].first_frame
    /\ reason = "could not find combination covering full range"
    /\ best_combo = anis

\* C6: when some subset of two or more clips passes the Range Analyzer, the
\* search keeps a passing subset of maximum cardinality, the first of that
\* cardinality in enumeration order; an input that is itself a tiling is
\* returned whole, in whatever order it was given.
C6_FirstLargestSubsetKept ==
    /\ (sel_pc = "searched" /\ PassingSets(anis) # {}) =>
           best_combo = Pick(anis, Ascending(FirstLargestPassing(anis)))
    /\ (sel_pc = "done" /\ Len(anis) >= 2 /\ TilesExactly(anis, 1..Len(anis))) =>
           /\ best_combo = anis
           /\ reason = "best combination"

\* Two passing subsets of the winning size hold different clips, and the
\* input is not in frame order.
C6_Witness ==
    /\ sel_pc = "searched"
    /\ Len(anis) = 3
    /\ anis[1].first_frame > anis[2].first_frame
    /\ \E S, T \in PassingSets(anis) :
          /\ S # T
          /\ Cardinality(S) = Cardinality(T)
          /\ Cardinality(S) = Len(best_combo)
          /\ Pick(anis, Ascending(S)) # Pick(anis, Ascending(T))

----------------------------------------------------------------------------
(* Sample Decoder and Track Merger. *)

\* The bone of flat sample index i: boneIndexCycle[i mod len], by name.
BoneNameAt(st, i) ==
    Mdh1.nodes[st.node_indices[(i % Len(st.node_indices)) + 1] + 1].name

SampleKeys(st) == 0..(Len(st.samples) - 1)
DecodedBones(st) == {BoneNameAt(st, i) : i \in SampleKeys(st)}
DecodedKeys(st, b) == {i \in SampleKeys(st) : BoneNameAt(st, i) = b}

DecodedTranslation(st, i) ==
    LET p == st.samples[i + 1].position
    IN [list |-> <<rf(p.x), rf(p.y), rf(p.z)>>]

DecodedRotation(st, i) ==
    LET r == st.samples[i + 1].rotation
    IN [list |-> <<rf(r.x), rf(r.y), rf(r.z), rf(r.w)>>]

DecodedFrames(st) ==
    [b \in DecodedBones(st) |->
        [translation |-> [i \in DecodedKeys(st, b) |-> DecodedTranslation(st, i)],
         rotation |-> [i \in DecodedKeys(st, b) |-> DecodedRotation(st, i)]]]

\* The last stream, in fold order, whose decode holds key i of bone b.
LastHolder(strs, b, i) ==
    strs[Max({s \in 1..Len(strs) : i \in DecodedKeys(strs[s], b)})]

\* The track fails the checksum validation.
FailsValidation(track) ==
    LET cs == {track[k].checksum : k \in 1..Len(track)}
    IN Cardinality(cs) # 1 \/ cs \cap DOMAIN mdh_by_checksum = {}

\* C10: while a stream with a non-empty cycle is decoded, every flat sample
\* index handled so far is filed under exactly the bone named by
\* boneIndexCycle[i mod len], in the translation and in the rotation map and
\* under no other bone; the offset used for a sample is i mod len; the keys
\* are the clip-local indices from 0.
C10_SamplesFiledByCycle ==
    (cv_pc = "samples" /\ Len(model_animation.node_indices) > 0) =>
        LET st == model_animation
            done == 0..(sample_index - 1)
            frames == man_data.frames
        IN /\ DOMAIN frames = {BoneNameAt(st, i) : i \in done}
           /\ \A b \in DOMAIN frames :
                 /\ DOMAIN frames[b].translation = {i \in done : BoneNameAt(st, i) = b}
                 /\ DOMAIN frames[b].rotation = {i \in done : BoneNameAt(st, i) = b}
           /\ sample_index >= 1 =>
                 bone_offset - 1 = (sample_index - 1) % Len(st.node_indices)
           /\ sample_index < Len(st.samples) =>
                 WrappedOffset(bone_offset, st.node_indices)
                     = sample_index % Len(st.node_indices)

\* Four samples of a two-bone cycle have been filed: the offset wrapped.
C10_Witness ==
    /\ cv_pc = "samples"
    /\ model_animation.node_indices = <<1, 0>>
    /\ sample_index = 4
    /\ DOMAIN man_data.frames["BIP01"].rotation = {1, 3}

\* C8: once every stream of the track is folded, the merged key set of each
\* bone and track is the union of the decoded key sets, and the entry at a
\* key is the one the last stream holding that key writes there, whatever
\* the earlier streams held.
C8_LastStreamWins ==
    cv_pc = "save" =>
        LET strs == model_animations
            merged == man_data_merged.animation.frames
        IN /\ DOMAIN merged = UNION {DecodedBones(strs[s]) : s \in 1..Len(strs)}
           /\ \A b \in DOMAIN merged :
                 LET keys == UNION {DecodedKeys(strs[s], b) : s \in 1..Len(strs)}
                 IN /\ DOMAIN merged[b].translation = keys
                    /\ DOMAIN merged[b].rotation = keys
                    /\ \A i \in keys :
                          /\ merged[b].translation[i] =
                                FoldedEntry(DecodedTranslation(LastHolder(strs, b, i), i))
                          /\ merged[b].rotation[i] =
                                FoldedEntry(DecodedRotation(LastHolder(strs, b, i), i))

\* Two streams were folded: key 0 of a bone is held by both, with different
\* values, and key 1 by the first stream only.
C8_Witness ==
    /\ cv_pc = "save"
    /\ Len(model_animations) = 2
    /\ \E b \in DOMAIN man_data_merged.animation.frames :
          /\ 0 \in DecodedKeys(model_animations[1], b) \cap DecodedKeys(model_animations[2], b)
          /\ 1 \in DecodedKeys(model_animations[1], b) \ DecodedKeys(model_animations[2], b)
          /\ DecodedTranslation(model_animations[1], 0) # DecodedTranslation(model_animations[2], 0)

\* C2: merging a single stream reproduces its decode: the merged frames
\* hold, for every bone, track and sample index, the key set and the full
\* component vectors of parse_man, and the merged header equals the
\* stream's.
C2_SingleClipMergeIsDecode ==
    (cv_pc = "save" /\ Len(model_animations) = 1) =>
        LET clipA == model_animations[1]
            merged == man_data_merged.animation
        IN /\ man_data.frames = DecodedFrames(clipA)
           /\ merged.frames = man_data.frames
           /\ merged.frame_count = clipA.frame_count
           /\ merged.fps = clipA.fps
           /\ merged.fps_source = clipA.fps_source
           /\ merged.layer = clipA.layer

\* C7: the document written for a track that passed the validation is the
\* merged structure (the hierarchy and the merged animation), and after a
\* merge of two or more streams its frames hold the keys of every stream.
C7_EmitsMergedTrack ==
    \A k \in 1..Len(saved) :
        LET doc == saved[k].json_data
            strs == tracks[saved[k].track]
        IN /\ "hierarchy" \in DOMAIN doc
           /\ "animation" \in DOMAIN doc
           /\ doc = man_data_merged
           /\ \A s \in 1..Len(strs) : \A b \in DecodedBones(strs[s]) :
                 /\ b \in DOMAIN doc.animation.frames
                 /\ DecodedKeys(strs[s], b) \subseteq DOMAIN doc.animation.frames[b].translation

\* C4: a track that fails the validation gets no document and does not
\* raise, and every track after it is processed: the run does not end
\* while a track after a failed one is still waiting.
C4_FailedTrackIsolated ==
    /\ \A k \in 1..Len(saved) : ~ FailsValidation(tracks[saved[k].track])
    /\ cv_pc = "raised" => ~ FailsValidation(tracks[track_idx])
    /\ cv_pc \in {"raised", "finished"} =>
           \A j \in 1..Len(tracks) :
               (j < track_idx /\ FailsValidation(tracks[j])) =>
                   \A k \in (j + 1)..Len(tracks) : k <= track_idx

====
